---- MODULE Spec2Model ----
(***************************************************************************)
(* MathIQ: a Streamlit chat front end (app.py) that forwards math problems *)
(* to a LangChain ReAct agent (src/agent.py), parses the reply into five   *)
(* sections with regular expressions and renders them (src/utils.py).      *)
(*                                                                         *)
(* Texts are sequences of tokens.  A token is the TLA+ string of the       *)
(* characters it stands for, and a text stands for the concatenation of    *)
(* its tokens.  The token alphabets below are chosen so that every match   *)
(* of the regular expressions of _parse_structured_output begins and ends  *)
(* on a token boundary, so the regular expressions are modelled by what    *)
(* they match at each token.                                               *)
(***************************************************************************)
EXTENDS Integers, Sequences, FiniteSets, TLC

\* ------------------------------------------------------------------ bounds
\* tokens the remote model may emit outside the five-header layout
MaxFree == 3
\* tokens of the step section in the step-splitting specification
MaxStepLen == 5
\* tool calls of one agent run in the run_agent specification
MaxCalls == 4
\* messages the session transcript may hold
MaxMessages == 4

\* ------------------------------------------------------------ token tables
\* the five headers of REACT_TEMPLATE, in the order of the layout
Headers ==
  << "**PROBLEM UNDERSTANDING**", "**STEP-BY-STEP SOLUTION**",
     "**CALCULATION BREAKDOWN**", "**FINAL ANSWER**", "**VERIFICATION**" >>

\* characters matched by \s
Whitespace == {" ", "\n"}

\* tokens that begin with the two characters **
Bold ==
  { Headers[i] : i \in 1..5 } \cup {"**final answer**", "**Step 1**", "**b**"}

\* tokens the remote model may emit anywhere in a reply
FreeTokens == Bold \cup {"x", "\n"}

\* tokens of a step section
StepTokens == {"1.", "2.", "3.14", "x", " ", "\n", "*Step"}

\* tokens at which the lookahead (?=\d+\.|\*Step) of the step split matches
\* (re.split is called without re.IGNORECASE)
StepStart == {"1.", "2.", "3.14", "*Step"}

SetMin(S) == CHOOSE x \in S : \A y \in S : x <= y

\* ------------------------------------------------------------ str.strip()
RECURSIVE lstrip(_)
lstrip(s) ==
  IF s = << >> THEN s
  ELSE IF Head(s) \in Whitespace THEN lstrip(Tail(s)) ELSE s

RECURSIVE rstrip(_)
rstrip(s) ==
  IF s = << >> THEN s
  ELSE IF s[Len(s)] \in Whitespace THEN rstrip(SubSeq(s, 1, Len(s) - 1)) ELSE s

strip(s) == rstrip(lstrip(s))

\* ------------------------------------------------- the five regex patterns
\* Each pattern is  <header>\s*(.*?)(?=<stop>|$)  under DOTALL | IGNORECASE:
\* header = the tokens the header part matches, stop = the tokens at which
\* the lookahead matches.
\* (variant: the step header matched by its prefix **STEP alone)
patterns_loose_header ==
  [ understanding |-> [ header |-> {"**PROBLEM UNDERSTANDING**"},
                        stop   |-> {"**STEP-BY-STEP SOLUTION**", "**Step 1**"} ],
    steps_raw     |-> [ header |-> {"**STEP-BY-STEP SOLUTION**", "**Step 1**"},
                        stop   |-> {"**CALCULATION BREAKDOWN**"} ],
    calculation   |-> [ header |-> {"**CALCULATION BREAKDOWN**"},
                        stop   |-> {"**FINAL ANSWER**", "**final answer**"} ],
    answer        |-> [ header |-> {"**FINAL ANSWER**", "**final answer**"},
                        stop   |-> {"**VERIFICATION**"} ],
    verification  |-> [ header |-> {"**VERIFICATION**"},
                        stop   |-> Bold ] ]

patterns ==
  [ understanding |-> [ header |-> {"**PROBLEM UNDERSTANDING**"},
                        stop   |-> {"**STEP-BY-STEP SOLUTION**", "**Step 1**"} ],
    steps_raw     |-> [ header |-> {"**STEP-BY-STEP SOLUTION**"},
                        stop   |-> {"**CALCULATION BREAKDOWN**"} ],
    calculation   |-> [ header |-> {"**CALCULATION BREAKDOWN**"},
                        stop   |-> {"**FINAL ANSWER**", "**final answer**"} ],
    answer        |-> [ header |-> {"**FINAL ANSWER**", "**final answer**"},
                        stop   |-> {"**VERIFICATION**"} ],
    verification  |-> [ header |-> {"**VERIFICATION**"},
                        stop   |-> Bold ] ]

\* re.search(pattern, text, re.DOTALL | re.IGNORECASE): the leftmost header,
\* the greedy \s*, then the lazy group up to the first position where the
\* lookahead holds ($ holds at the end and before a final newline).
re_search(p, text) ==
  LET n      == Len(text)
      starts == { i \in 1..n : text[i] \in p.header }
  IN IF starts = {} THEN [ found |-> FALSE, group |-> << >> ]
     ELSE LET h == SetMin(starts)
              b == SetMin({ j \in (h + 1)..(n + 1) :
                              j = n + 1 \/ text[j] \notin Whitespace })
              e == SetMin({ k \in b..(n + 1) :
                              \/ k = n + 1
                              \/ text[k] \in p.stop
                              \/ (k = n /\ text[k] = "\n") })
          IN [ found |-> TRUE, group |-> SubSeq(text, b, e - 1) ]

\* re.split(r"\n(?=\d+\.|\*Step)", val)
\* (variant: the split without its lookahead)
RECURSIVE re_split_every_newline(_)
re_split_every_newline(val) ==
  LET cuts == { i \in 1..Len(val) : val[i] = "\n" }
  IN IF cuts = {} THEN << val >>
     ELSE LET i == SetMin(cuts)
          IN << SubSeq(val, 1, i - 1) >>
               \o re_split_every_newline(SubSeq(val, i + 1, Len(val)))

RECURSIVE re_split(_)
re_split(val) ==
  LET cuts == { i \in 1..(Len(val) - 1) :
                  val[i] = "\n" /\ val[i + 1] \in StepStart }
  IN IF cuts = {} THEN << val >>
     ELSE LET i == SetMin(cuts)
          IN << SubSeq(val, 1, i - 1) >>
               \o re_split(SubSeq(val, i + 1, Len(val)))

\* [s.strip() for s in raw_steps if s.strip()]
RECURSIVE strip_nonempty(_)
strip_nonempty(raw_steps) ==
  IF raw_steps = << >> THEN << >>
  ELSE LET s == strip(Head(raw_steps))
       IN (IF s = << >> THEN << >> ELSE << s >>) \o strip_nonempty(Tail(raw_steps))

\* the loop over patterns.items(); "" and [] are both the empty sequence
sections(text) ==
  LET m(key)   == re_search(patterns[key], text)
      val(key) == strip(m(key).group)
  IN [ understanding |-> IF m("understanding").found THEN val("understanding") ELSE << >>,
       steps         |-> IF m("steps_raw").found
                           THEN strip_nonempty(re_split(val("steps_raw")))
                           ELSE << >>,
       calculation   |-> IF m("calculation").found THEN val("calculation") ELSE << >>,
       answer        |-> IF m("answer").found THEN val("answer") ELSE << >>,
       verification  |-> IF m("verification").found THEN val("verification") ELSE << >> ]

\* (variant: the fallback taken only when understanding is empty as well)
parse_fallback_needs_both(text) ==
  LET s == sections(text)
  IN IF s.answer = << >> /\ s.understanding = << >>
       THEN [ s EXCEPT !.answer = strip(text) ]
       ELSE s

\* _parse_structured_output
parse_structured_output(text) ==
  LET s == sections(text)
  IN IF s.answer = << >> THEN [ s EXCEPT !.answer = strip(text) ] ELSE s


\* ------------------------------------------------------------- run_agent
\* Tool inputs and observations are Python values: a str, or a dict whose
\* items render to the given characters.  Characters are ASCII codes.
Chars(n) == [ i \in 1..n |-> 48 + (i % 10) ]

PyStr(s) == [ type |-> "str", chars |-> s ]

PyDict(items) == [ type |-> "dict", chars |-> items ]

\* str(value)
str(value) ==
  IF value.type = "str" THEN value.chars ELSE << 123 >> \o value.chars \o << 125 >>

\* s[:n]
Slice(s, n) == SubSeq(s, 1, IF Len(s) < n THEN Len(s) ELSE n)

InputLimit == 200

OutputLimit == 300

\* getattr(obj, name, default)
getattr(obj, name, default) == IF name \in DOMAIN obj THEN obj[name] ELSE default

Range(f) == { f[i] : i \in DOMAIN f }

\* one (action, observation) pair of the loop over intermediate_steps
\* (variant: the values cut before they are rendered)
trace_entry_slice_before_str(action, observation) ==
  LET tool_input == getattr(action, "tool_input", PyStr(<< >>))
  IN [ tool   |-> getattr(action, "tool", "unknown"),
       input  |-> str([ tool_input EXCEPT !.chars = Slice(@, InputLimit) ]),
       output |-> str([ observation EXCEPT !.chars = Slice(@, OutputLimit) ]) ]

trace_entry(action, observation) ==
  LET tool_input == getattr(action, "tool_input", PyStr(<< >>))
  IN [ tool   |-> getattr(action, "tool", "unknown"),
       input  |-> Slice(str(tool_input), InputLimit),
       output |-> Slice(str(observation), OutputLimit) ]

\* if tool_name not in tools_used: tools_used.append(tool_name)
\* (variant: the append without its membership test)
note_tool_always_append(tools_used, tool_name) == Append(tools_used, tool_name)

\* (variant: only the first tool of a run noted)
note_tool_first_only(tools_used, tool_name) ==
  IF tools_used = << >> THEN Append(tools_used, tool_name) ELSE tools_used

note_tool(tools_used, tool_name) ==
  IF tool_name \notin Range(tools_used) THEN Append(tools_used, tool_name)
  ELSE tools_used

\* for action, observation in steps: ...
RECURSIVE tools_loop(_, _, _)
tools_loop(steps, tools_used, tool_trace) ==
  IF steps = << >> THEN [ tools_used |-> tools_used, tool_trace |-> tool_trace ]
  ELSE LET action      == Head(steps)[1]
           observation == Head(steps)[2]
           tool_name   == getattr(action, "tool", "unknown")
       IN tools_loop(Tail(steps),
                     note_tool(tools_used, tool_name),
                     Append(tool_trace, trace_entry(action, observation)))

\* what agent.invoke did: returned a result dict, or raised an exception
\* (an exception is modelled by its message, "" when it has none)
Returned(output, intermediate_steps) ==
  [ raised |-> FALSE, output |-> output, intermediate_steps |-> intermediate_steps ]

Raised(exc) == [ raised |-> TRUE, exc |-> exc ]

\* str(exc) as a text
exc_text(exc) == IF exc = "" THEN << >> ELSE << exc >>

\* run_agent(agent, problem, mode), given what its one agent.invoke call did
run_agent(invoke, mode_arg) ==
  IF invoke.raised
    THEN [ error         |-> exc_text(invoke.exc),
           understanding |-> << "Error during reasoning." >>,
           steps         |-> << >>,
           calculation   |-> << >>,
           answer        |-> << "Error: " >> \o exc_text(invoke.exc),
           verification  |-> << >>,
           tools_used    |-> << >>,
           tool_trace    |-> << >>,
           raw           |-> exc_text(invoke.exc),
           mode          |-> mode_arg ]
    ELSE LET raw_output == invoke.output
             t          == tools_loop(invoke.intermediate_steps, << >>, << >>)
             parsed     == parse_structured_output(raw_output)
         IN [ understanding |-> parsed.understanding,
              steps         |-> parsed.steps,
              calculation   |-> parsed.calculation,
              answer        |-> parsed.answer,
              verification  |-> parsed.verification,
              tools_used    |-> t.tools_used,
              tool_trace    |-> t.tool_trace,
              raw           |-> raw_output,
              mode          |-> mode_arg ]

\* the four labels of the mode selector
Modes == {"Solve Only", "Explain Like I'm 12", "Exam Mode", "Proof Mode"}

\* ------------------------------------------------ inputs of the agent run
\* the actions the agent may report: a tool name (or no tool attribute) and
\* an input
ToolActions ==
  { [ tool |-> "Calculator", tool_input |-> PyStr(Chars(3)) ],
    [ tool |-> "PythonSolver", tool_input |-> PyStr(Chars(201)) ],
    [ tool |-> "Calculator", tool_input |-> PyDict(Chars(199)) ],
    [ tool |-> "PythonSolver", tool_input |-> PyDict(Chars(3)) ],
    [ tool_input |-> PyStr(Chars(201)) ] }

Observations == { PyStr(Chars(5)), PyStr(Chars(301)), PyDict(Chars(299)) }

\* the (action, observation) pairs of one tool call
ToolCalls ==
  { << a, PyStr(Chars(5)) >> : a \in ToolActions }
    \cup { << [ tool |-> "Calculator", tool_input |-> PyStr(Chars(3)) ], o >> :
             o \in Observations }

RawOutputs ==
  { << "x" >>,
    << "**PROBLEM UNDERSTANDING**", "x", "\n", "**FINAL ANSWER**", "x" >> }

Exceptions == { "", "Request timed out." }

\* ------------------------------------------------- credentials and agent
\* MODE_INSTRUCTIONS, each instruction named by its first sentence
MODE_INSTRUCTIONS ==
  [ m \in Modes |->
      CASE m = "Solve Only" -> "Solve the math problem directly and concisely."
        [] m = "Explain Like I'm 12" ->
             "Explain the math problem as if you're teaching a 12-year-old."
        [] m = "Exam Mode" -> "Solve this as if writing a full exam solution."
        [] m = "Proof Mode" ->
             "Construct a formal mathematical proof or rigorous logical argument." ]

\* a key that is not there (os.getenv gives None, the key is not in st.secrets)
Unset == "<unset>"

\* not value, for a key
Falsy(value) == value \in {Unset, ""}

\* validate_api_keys(): copies a truthy GROQ_API_KEY of st.secrets into
\* os.environ, then raises ValueError when os.environ holds none
\* (variant: the check of os.environ left out)
validate_api_keys_never_raises(environ_key, secrets_key) ==
  LET injected == IF ~Falsy(secrets_key) THEN secrets_key ELSE environ_key
  IN [ environ |-> injected, raised |-> FALSE ]

validate_api_keys(environ_key, secrets_key) ==
  LET injected == IF ~Falsy(secrets_key) THEN secrets_key ELSE environ_key
  IN [ environ |-> injected, raised |-> Falsy(injected) ]

NoAgent == [ none |-> TRUE ]

\* build_agent(mode): ValueError without the key, any exception of the
\* ChatGroq / tool / agent constructors when constructs is FALSE, else the
\* executor, which is its prompt's mode instruction
build_agent(mode_arg, environ_key, constructs) ==
  IF Falsy(environ_key) THEN [ raised |-> "ValueError", agent |-> NoAgent ]
  ELSE IF ~constructs THEN [ raised |-> "Exception", agent |-> NoAgent ]
  ELSE [ raised |-> "",
         agent  |-> [ mode_instruction |->
                        IF mode_arg \in DOMAIN MODE_INSTRUCTIONS
                          THEN MODE_INSTRUCTIONS[mode_arg]
                          ELSE MODE_INSTRUCTIONS["Exam Mode"] ] ]

\* ----------------------------------------------- inputs of the session
Prompts == { "2 + 2" }

\* two of the five sample problems
SampleProblems ==
  { "Find the derivative of f(x) = 3x^3 - 5x^2 + 2x - 7",
    "Solve the system: 2x + 3y = 12 and x - y = 1" }

\* what agent.invoke may do in a request of the session
SessionInvokes ==
  { Returned(<< "**PROBLEM UNDERSTANDING**", "x", "\n", "**FINAL ANSWER**", "x" >>,
             << << [ tool |-> "Calculator", tool_input |-> PyStr(Chars(3)) ],
                   PyStr(Chars(5)) >> >>),
    Raised("Request timed out."),
    Raised("") }

\* ------------------------------------------------------------- rendering
\* bool(value) of a text, a list or a dict
Truthy(value) == value # << >>

\* format_response_html(data, show_trace, show_tools): the panels it writes,
\* in order
format_response_html(data, trace_on, tools_on) ==
  IF ~Truthy(data) THEN << "warning" >>
  ELSE IF "error" \in DOMAIN data /\ Truthy(data.error) THEN << "error-box" >>
  ELSE (IF tools_on /\ Truthy(data.tools_used) THEN << "badges" >> ELSE << >>)
       \o (IF Truthy(data.understanding) THEN << "understanding" >> ELSE << >>)
       \o (IF trace_on /\ Truthy(data.steps) THEN << "steps" >> ELSE << >>)
       \o (IF Truthy(data.calculation) THEN << "calculation" >> ELSE << >>)
       \o << "answer" >>
       \o (IF Truthy(data.verification) THEN << "verification" >> ELSE << >>)
       \o (IF tools_on /\ Truthy(data.tool_trace) THEN << "tool-log" >> ELSE << >>)
       \o (IF data.mode # "" THEN << "mode" >> ELSE << >>)

\* one st.chat_message container of the history loop
chat_message(msg, trace_on, tools_on) ==
  IF msg.role = "user"
    THEN [ role |-> "user", by |-> "markdown", data |-> msg.content,
           panels |-> << "markdown" >> ]
    ELSE LET data == IF "data" \in DOMAIN msg THEN msg.data ELSE << >>
         IN [ role |-> "assistant", by |-> "format_response_html", data |-> data,
              panels |-> format_response_html(data, trace_on, tools_on) ]

\* the empty state: the welcome text and the sample problem buttons
Welcome ==
  [ role |-> "page", by |-> "empty-state", data |-> << >>,
    panels |-> << "welcome", "samples" >> ]

\* what a script run writes before it reaches the chat input: the empty
\* state when the transcript is empty, then the history
render_page(msgs, trace_on, tools_on) ==
  (IF msgs = << >> THEN << Welcome >> ELSE << >>)
    \o [ i \in 1..Len(msgs) |-> chat_message(msgs[i], trace_on, tools_on) ]

\* the two except clauses of the chat input handler: one error panel, and
\* the transcript as it stands
\* (variant: the failure stored as an assistant message)
except_clause_appends(asked, raised) ==
  [ messages |-> Append(asked, [ role |-> "assistant", content |-> << raised >>,
                                 data |-> << >> ]),
    container |-> [ role |-> "assistant", by |-> "except", data |-> raised,
                    panels |-> << "error-box" >> ] ]

except_clause(asked, raised) ==
  [ messages |-> asked,
    container |-> [ role |-> "assistant", by |-> "except", data |-> raised,
                    panels |-> << "error-box" >> ] ]

\* ----------------------------------------------------------------- state
VARIABLES
  text,     \* the reply text handed to _parse_structured_output
  stage,    \* how many headers of the layout the reply has emitted in order
  pc,       \* "gen": reply being produced, "steps": step section being
            \* produced, "done": parsed, "agent": agent running,
            \* "returned": run_agent returned
  result,   \* what _parse_structured_output or run_agent returned
  calls,    \* the intermediate steps the running agent has made so far
  invoke,   \* what the agent.invoke call of run_agent did
  messages,    \* st.session_state.messages, the transcript
  mode,        \* st.session_state.mode
  show_trace,  \* st.session_state.show_trace
  show_tools,  \* st.session_state.show_tools
  agent,       \* st.session_state.agent, NoAgent for None
  environ,     \* os.environ["GROQ_API_KEY"]
  secrets,     \* st.secrets["GROQ_API_KEY"]
  last,        \* what the last script run did, for observation
  screen       \* the containers the last script run wrote to the page

parseVars == << text, stage >>

runVars == << calls, invoke >>

sessionVars ==
  << messages, mode, show_trace, show_tools, agent, environ, secrets, last,
     screen >>

vars ==
  << text, stage, pc, result, calls, invoke,
     messages, mode, show_trace, show_tools, agent, environ, secrets, last,
     screen >>

NoResult == [ none |-> TRUE ]

NoInvoke == [ none |-> TRUE ]

RunIdle == calls = << >> /\ invoke = NoInvoke

ParseIdle == text = << >> /\ stage = 0

\* a script run that handled no chat input
NoRequest ==
  [ op |-> "none", credential |-> FALSE, build_called |-> FALSE, invoked |-> 0,
    instruction |-> "", panel |-> "" ]

\* the session state defaults, with no key configured
SessionIdle ==
  /\ messages = << >>
  /\ mode = "Exam Mode"
  /\ show_trace = TRUE
  /\ show_tools = TRUE
  /\ agent = NoAgent
  /\ environ = Unset
  /\ secrets = Unset
  /\ last = NoRequest
  /\ screen = << >>

\* ------------------------------------------------ replies and the parser
InitParse ==
  /\ text = << >>
  /\ stage = 0
  /\ pc = "gen"
  /\ result = NoResult
  /\ RunIdle
  /\ SessionIdle

\* the reply continues with the next header of the STRICT RESPONSE FORMAT
EmitHeader ==
  /\ pc = "gen"
  /\ stage < 5
  /\ text' = Append(text, Headers[stage + 1])
  /\ stage' = stage + 1
  /\ UNCHANGED << pc, result, runVars, sessionVars >>

\* the reply continues with any other token
EmitToken(t) ==
  /\ pc = "gen"
  /\ Len(text) - stage < MaxFree
  /\ text' = Append(text, t)
  /\ UNCHANGED << stage, pc, result, runVars, sessionVars >>

\* the step section of a reply that holds only that section
InitSteps ==
  /\ text = << "**STEP-BY-STEP SOLUTION**" >>
  /\ stage = 0
  /\ pc = "steps"
  /\ result = NoResult
  /\ RunIdle
  /\ SessionIdle

EmitStepToken(t) ==
  /\ pc = "steps"
  /\ Len(text) - 1 < MaxStepLen
  /\ text' = Append(text, t)
  /\ UNCHANGED << stage, pc, result, runVars, sessionVars >>

Parse ==
  /\ pc \in {"gen", "steps"}
  /\ result' = parse_structured_output(text)
  /\ pc' = "done"
  /\ UNCHANGED << text, stage, runVars, sessionVars >>

NextParse ==
  \/ EmitHeader
  \/ \E t \in FreeTokens : EmitToken(t)
  \/ Parse

NextSteps ==
  \/ \E t \in StepTokens : EmitStepToken(t)
  \/ Parse

SpecParse == InitParse /\ [][NextParse]_vars

SpecSteps == InitSteps /\ [][NextSteps]_vars

\* ------------------------------------------------------ one run_agent call
InitRun ==
  /\ pc = "agent"
  /\ result = NoResult
  /\ calls = << >>
  /\ invoke = NoInvoke
  /\ ParseIdle
  /\ SessionIdle

\* the agent calls a tool and observes its output
ToolCall(c) ==
  /\ pc = "agent"
  /\ Len(calls) < MaxCalls
  /\ calls' = Append(calls, c)
  /\ UNCHANGED << pc, result, invoke, parseVars, sessionVars >>

\* agent.invoke returns with a final output, and run_agent with its record
AgentReturns(raw, m) ==
  /\ pc = "agent"
  /\ invoke' = Returned(raw, calls)
  /\ result' = run_agent(invoke', m)
  /\ pc' = "returned"
  /\ UNCHANGED << calls, parseVars, sessionVars >>

\* agent.invoke raises, and run_agent returns its error record
AgentRaises(exc, m) ==
  /\ pc = "agent"
  /\ invoke' = Raised(exc)
  /\ result' = run_agent(invoke', m)
  /\ pc' = "returned"
  /\ UNCHANGED << calls, parseVars, sessionVars >>

NextRun ==
  \/ \E c \in ToolCalls : ToolCall(c)
  \/ \E raw \in RawOutputs, m \in Modes : AgentReturns(raw, m)
  \/ \E exc \in Exceptions, m \in Modes : AgentRaises(exc, m)

SpecRun == InitRun /\ [][NextRun]_vars

\* ------------------------------------------------------------ the session
\* app.py: every action is one run of the script, from the widget event that
\* triggers it to the end of the run
Init ==
  /\ pc = "session"
  /\ result = NoResult
  /\ RunIdle
  /\ ParseIdle
  /\ messages = << >>
  /\ mode = "Exam Mode"
  /\ show_trace = TRUE
  /\ show_tools = TRUE
  /\ agent = NoAgent
  /\ environ \in {Unset, "gsk-env"}
  /\ secrets \in {Unset, "", "gsk-secret"}
  /\ last = NoRequest
  /\ screen = render_page(<< >>, TRUE, TRUE)

pureVars == << text, stage, pc, result, calls, invoke >>

UserMessage(content) == [ role |-> "user", content |-> content ]

\* (variant: the message stored without the record)
AssistantMessage_without_record(r) ==
  [ role |-> "assistant", content |-> r.answer, data |-> << >> ]

AssistantMessage(r) == [ role |-> "assistant", content |-> r.answer, data |-> r ]

\* the chat input handler: a prompt is typed and sent
ChatInput(prompt, inv, constructs) ==
  /\ pc = "session"
  /\ Len(messages) + 2 <= MaxMessages
  /\ LET v          == validate_api_keys(environ, secrets)
         build      == agent = NoAgent
         b          == build_agent(mode, v.environ, constructs)
         credential == ~(Falsy(environ) /\ Falsy(secrets))
         asked      == Append(messages, UserMessage(prompt))
         before     == render_page(messages, show_trace, show_tools)
                         \o << chat_message(UserMessage(prompt), show_trace, show_tools) >>
     IN /\ environ' = v.environ
        /\ IF v.raised
             THEN /\ messages' = except_clause(asked, "ValueError").messages
                  /\ screen' = Append(before, except_clause(asked, "ValueError").container)
                  /\ agent' = agent
                  /\ last' = [ op |-> "chat", credential |-> credential,
                               build_called |-> FALSE, invoked |-> 0,
                               instruction |-> "", panel |-> "ValueError" ]
             ELSE IF build /\ b.raised # ""
               THEN /\ messages' = except_clause(asked, b.raised).messages
                    /\ screen' = Append(before, except_clause(asked, b.raised).container)
                    /\ agent' = agent
                    /\ last' = [ op |-> "chat", credential |-> credential,
                                 build_called |-> TRUE, invoked |-> 0,
                                 instruction |-> "", panel |-> b.raised ]
               ELSE LET cached == IF build THEN b.agent ELSE agent
                        r      == run_agent(inv, mode)
                    IN /\ agent' = cached
                       /\ messages' = Append(asked, AssistantMessage(r))
                       /\ screen' = Append(before,
                                           [ role |-> "assistant",
                                             by |-> "format_response_html",
                                             data |-> r,
                                             panels |-> format_response_html(
                                                          r, show_trace, show_tools) ])
                       /\ last' = [ op |-> "chat", credential |-> credential,
                                    build_called |-> build, invoked |-> 1,
                                    instruction |-> cached.mode_instruction,
                                    panel |-> "response" ]
  /\ UNCHANGED << mode, show_trace, show_tools, secrets, pureVars >>

\* a sample problem button of the empty state: appends the problem and reruns
SampleProblem(prob) ==
  /\ pc = "session"
  /\ messages = << >>
  /\ Len(messages) + 1 <= MaxMessages
  /\ messages' = Append(messages, UserMessage(prob))
  /\ last' = NoRequest
  /\ screen' = render_page(messages', show_trace, show_tools)
  /\ UNCHANGED << mode, show_trace, show_tools, agent, environ, secrets, pureVars >>

\* the Clear Chat button
\* (variant: the cached agent dropped with the transcript)
ClearChat_resets_agent ==
  /\ pc = "session"
  /\ messages' = << >>
  /\ agent' = NoAgent
  /\ last' = NoRequest
  /\ screen' = render_page(messages', show_trace, show_tools)
  /\ UNCHANGED << mode, show_trace, show_tools, environ, secrets, pureVars >>

\* (variant: the display options put back to their defaults)
ClearChat_restores_defaults ==
  /\ pc = "session"
  /\ messages' = << >>
  /\ show_trace' = TRUE
  /\ show_tools' = TRUE
  /\ last' = NoRequest
  /\ screen' = render_page(messages', show_trace', show_tools')
  /\ UNCHANGED << mode, agent, environ, secrets, pureVars >>

ClearChat ==
  /\ pc = "session"
  /\ messages' = << >>
  /\ last' = NoRequest
  /\ screen' = render_page(messages', show_trace, show_tools)
  /\ UNCHANGED << mode, show_trace, show_tools, agent, environ, secrets, pureVars >>

\* the mode selectbox
SelectMode(m) ==
  /\ pc = "session"
  /\ mode' = m
  /\ last' = NoRequest
  /\ screen' = render_page(messages, show_trace, show_tools)
  /\ UNCHANGED << messages, show_trace, show_tools, agent, environ, secrets, pureVars >>

\* the two display toggles
ToggleTrace ==
  /\ pc = "session"
  /\ show_trace' = ~show_trace
  /\ last' = NoRequest
  /\ screen' = render_page(messages, show_trace', show_tools)
  /\ UNCHANGED << messages, mode, show_tools, agent, environ, secrets, pureVars >>

ToggleTools ==
  /\ pc = "session"
  /\ show_tools' = ~show_tools
  /\ last' = NoRequest
  /\ screen' = render_page(messages, show_trace, show_tools')
  /\ UNCHANGED << messages, mode, show_trace, agent, environ, secrets, pureVars >>

\* the secrets file is edited between two script runs
EditSecrets(value) ==
  /\ pc = "session"
  /\ secrets' = value
  /\ last' = NoRequest
  /\ UNCHANGED << messages, mode, show_trace, show_tools, agent, environ, screen,
                  pureVars >>

Next ==
  \/ \E prompt \in Prompts, inv \in SessionInvokes, constructs \in BOOLEAN :
       ChatInput(prompt, inv, constructs)
  \/ \E prob \in SampleProblems : SampleProblem(prob)
  \/ ClearChat
  \/ \E m \in Modes : SelectMode(m)
  \/ ToggleTrace
  \/ ToggleTools
  \/ \E value \in {Unset, "", "gsk-secret"} : EditSecrets(value)

Spec == Init /\ [][Next]_vars

\* ------------------------------------------- vocabulary of the properties
\* the spellings under which header k of the layout is matched
HeaderForms(k) ==
  IF k = 4 THEN {"**FINAL ANSWER**", "**final answer**"} ELSE { Headers[k] }

AnyHeader == UNION { HeaderForms(k) : k \in 1..5 }

Pos(k, t) == { i \in 1..Len(t) : t[i] \in HeaderForms(k) }

Present(k, t) == Pos(k, t) # {}

Field(r, k) ==
  CASE k = 1 -> r.understanding
    [] k = 2 -> r.steps
    [] k = 3 -> r.calculation
    [] k = 4 -> r.answer
    [] k = 5 -> r.verification

\* each header occurs once and the five occur in the order of the layout
InLayout(t) ==
  /\ \A k \in 1..5 : Cardinality(Pos(k, t)) = 1
  /\ \A k \in 1..4 : SetMin(Pos(k, t)) < SetMin(Pos(k + 1, t))

\* the trimmed substring between header k and header k + 1 (the end for k = 5)
Between(k, t) ==
  LET p == SetMin(Pos(k, t))
      q == IF k < 5 THEN SetMin(Pos(k + 1, t)) ELSE Len(t) + 1
  IN strip(SubSeq(t, p + 1, q - 1))

\* the trimmed substring from the first header k to the next header of any
\* section (the end when none follows)
UpToNextHeader(k, t) ==
  LET p == SetMin(Pos(k, t))
      q == SetMin({ j \in (p + 1)..(Len(t) + 1) :
                      j = Len(t) + 1 \/ t[j] \in AnyHeader })
  IN strip(SubSeq(t, p + 1, q - 1))

StepsOf(section) == strip_nonempty(re_split(section))

\* ------------------------------------------------------------------ C1
\* C1 (as claimed): for a text holding the five headers in order, each of
\* understanding, calculation, answer and verification is the trimmed
\* substring between its header and the following header (the end of the text
\* for VERIFICATION), and steps is built from the substring between the
\* STEP-BY-STEP SOLUTION and CALCULATION BREAKDOWN headers.  (The answer is
\* compared when its substring is not blank; the blank case is the fallback.)
C1_ExactSubstrings ==
  (pc = "done" /\ InLayout(text)) =>
     /\ result.understanding = Between(1, text)
     /\ result.steps = StepsOf(Between(2, text))
     /\ result.calculation = Between(3, text)
     /\ Between(4, text) # << >> => result.answer = Between(4, text)
     /\ result.verification = Between(5, text)

\* ------------------------------------------------------------------ C2
\* C2: when the text holds no FINAL ANSWER header, the answer field is the
\* whole text with surrounding whitespace trimmed, whatever other headers the
\* text holds.
C2_AnswerFallsBackToFullText ==
  (pc = "done" /\ ~Present(4, text)) => result.answer = strip(text)

\* a parsed text without FINAL ANSWER that holds another, non-empty section,
\* and whose ends are whitespace
C2_Witness ==
  /\ pc = "done"
  /\ ~Present(4, text)
  /\ Present(1, text)
  /\ result.understanding # << >>
  /\ strip(text) # text
  /\ result.answer = strip(text)

\* ------------------------------------------------------------------ C7
\* C7 (as claimed): every section whose header is absent from the text is
\* returned empty.
C7_AbsentMeansEmpty ==
  pc = "done" =>
    \A k \in 1..5 : ~Present(k, text) => Field(result, k) = << >>

\* C7 (amended): every section other than the answer whose header is absent
\* from the text is returned empty (the answer is the one field with a
\* fallback).
C7_AbsentMeansEmptyExceptAnswer ==
  pc = "done" =>
    \A k \in {1, 2, 3, 5} : ~Present(k, text) => Field(result, k) = << >>

\* a parsed text with one section present and filled, the step header absent
\* although a bold "Step" line is there
C7_Witness ==
  /\ pc = "done"
  /\ Present(1, text)
  /\ result.understanding # << >>
  /\ ~Present(2, text)
  /\ \E i \in 1..Len(text) : text[i] = "**Step 1**"
  /\ result.steps = << >>

\* ------------------------------------------------------------------ C8
\* C8 (as claimed): each present section runs from its header to the next
\* header that occurs in the text, or to the end when none follows (the
\* answer is compared when that stretch is not blank, steps through the split
\* of that stretch).  Stated for texts in which no header occurs twice.
C8_RunsToNextHeader ==
  (pc = "done" /\ \A k \in 1..5 : Cardinality(Pos(k, text)) <= 1) =>
    \A k \in 1..5 :
      Present(k, text) =>
        CASE k = 2 -> result.steps = StepsOf(UpToNextHeader(2, text))
          [] k = 4 -> \/ UpToNextHeader(4, text) = << >>
                      \/ result.answer = UpToNextHeader(4, text)
          [] OTHER -> Field(result, k) = UpToNextHeader(k, text)

\* ------------------------------------------------------------------ C3
\* the step section handed to the split
StepSection == strip(Tail(text))

\* the newlines at which a line that begins with digits and a dot, or with
\* *Step, follows
LineMarkers == {"1.", "2.", "3.14", "*Step"}

Cuts(v) == { i \in 1..(Len(v) - 1) : v[i] = "\n" /\ v[i + 1] \in LineMarkers }

\* lines that begin with a numbered-item marker
NumberedItems(v) ==
  { i \in 1..Len(v) : v[i] \in {"1.", "2."} /\ (i = 1 \/ v[i - 1] = "\n") }

RECURSIVE Flatten(_)
Flatten(ss) == IF ss = << >> THEN << >> ELSE Head(ss) \o Flatten(Tail(ss))

NonBlank(v) == SelectSeq(v, LAMBDA t : t \notin Whitespace)

Trimmed(s) == s # << >> /\ s[1] \notin Whitespace /\ s[Len(s)] \notin Whitespace

\* C3 (as claimed): the steps list has one entry per numbered item, each
\* entry trimmed and non-empty.
C3_OneEntryPerNumberedItem ==
  (pc = "done" /\ text[1] = "**STEP-BY-STEP SOLUTION**") =>
     /\ Len(result.steps) = Cardinality(NumberedItems(StepSection))
     /\ \A i \in 1..Len(result.steps) : Trimmed(result.steps[i])

\* C3 (amended): the step section is cut exactly at the newlines that are
\* directly followed by digits and a dot or by *Step: a non-blank section
\* gives one entry more than there are such newlines, in text order, each
\* entry trimmed and non-empty, every entry after the first beginning with
\* such a marker, no entry holding such a newline, and nothing but whitespace
\* lost.
C3_SplitAtMarkedNewlines ==
  (pc = "done" /\ text[1] = "**STEP-BY-STEP SOLUTION**") =>
     LET v  == StepSection
         st == result.steps
     IN /\ Len(st) = IF v = << >> THEN 0 ELSE 1 + Cardinality(Cuts(v))
        /\ \A i \in 1..Len(st) : Trimmed(st[i]) /\ Cuts(st[i]) = {}
        /\ \A i \in 2..Len(st) : st[i][1] \in LineMarkers
        /\ NonBlank(Flatten(st)) = NonBlank(v)

\* a numbered item with a continuation line, then a second numbered item
C3_Witness ==
  /\ pc = "done"
  /\ text = << "**STEP-BY-STEP SOLUTION**", "1.", "\n", "x", "\n", "2." >>
  /\ result.steps = << << "1.", "\n", "x" >>, << "2." >> >>

\* ------------------------------------------------------------------ C4
\* the tool name a call reports ("unknown" when the action carries none)
CalledName(c) == IF "tool" \in DOMAIN c[1] THEN c[1].tool ELSE "unknown"

CalledNames == [ i \in 1..Len(calls) |-> CalledName(calls[i]) ]

FirstCall(name) == SetMin({ i \in 1..Len(calls) : CalledNames[i] = name })

\* C4: tools_used holds each called tool name exactly once, ordered by the
\* position of its first call.
C4_FirstOccurrenceOrder ==
  (pc = "returned" /\ ~invoke.raised) =>
     LET tu == result.tools_used
     IN /\ Range(tu) = Range(CalledNames)
        /\ \A i, j \in 1..Len(tu) :
             i < j => tu[i] # tu[j] /\ FirstCall(tu[i]) < FirstCall(tu[j])

\* the calls A, B, A, C of the example, giving [A, B, C]
C4_Witness ==
  /\ pc = "returned"
  /\ ~invoke.raised
  /\ CalledNames = << "Calculator", "PythonSolver", "Calculator", "unknown" >>
  /\ result.tools_used = << "Calculator", "PythonSolver", "unknown" >>

\* ------------------------------------------------------------------ C9
\* p is the first at most n characters of s
FirstAtMost(p, s, n) ==
  /\ Len(p) = IF Len(s) < n THEN Len(s) ELSE n
  /\ \A k \in 1..Len(p) : p[k] = s[k]

\* C9: tool_trace has one entry per tool call, in call order; an entry's
\* input is the first at most 200 characters of the call's input rendered as
\* text, its output the first at most 300 characters of the observation
\* rendered as text.
C9_TraceEntries ==
  (pc = "returned" /\ ~invoke.raised) =>
     LET tt == result.tool_trace
     IN /\ Len(tt) = Len(calls)
        /\ \A i \in 1..Len(tt) :
             /\ tt[i].tool = CalledNames[i]
             /\ FirstAtMost(tt[i].input, str(calls[i][1].tool_input), 200)
             /\ FirstAtMost(tt[i].output, str(calls[i][2]), 300)

\* a run with a dict input that only its rendering takes past 200
\* characters, an observation past 300 characters, and a short call
C9_Witness ==
  /\ pc = "returned"
  /\ ~invoke.raised
  /\ \E i, j, k \in 1..Len(calls) :
       /\ calls[i][1].tool_input.type = "dict"
       /\ Len(calls[i][1].tool_input.chars) < 200
       /\ Len(result.tool_trace[i].input) = 200
       /\ Len(str(calls[j][2])) > 300
       /\ Len(result.tool_trace[j].output) = 300
       /\ Len(result.tool_trace[k].input) < 200
       /\ Len(result.tool_trace[k].output) < 300

\* ------------------------------------------------------------------ C6
SuccessFields ==
  { "understanding", "steps", "calculation", "answer", "verification",
    "tools_used", "tool_trace", "raw", "mode" }

\* C6 (as claimed): when agent.invoke raises, run_agent returns a record
\* with the fields of a successful record, the exception text in the answer
\* field and a non-empty error marker.
C6_ErrorRecord ==
  (pc = "returned" /\ invoke.raised) =>
     /\ SuccessFields \subseteq DOMAIN result
     /\ SubSeq(result.answer, 2, Len(result.answer)) = exc_text(invoke.exc)
     /\ "error" \in DOMAIN result
     /\ result.error # << >>

\* ------------------------------------------------------------------ C5
\* C5: a request handled while GROQ_API_KEY is absent from both the secrets
\* store and the environment fails before build_agent or agent.invoke is
\* reached.
C5_NoKeyNoBuildNoInvoke ==
  (last.op = "chat" /\ ~last.credential) =>
     /\ ~last.build_called
     /\ last.invoked = 0
     /\ last.panel = "ValueError"

\* a request handled without the key: only its user message was added
C5_Witness ==
  /\ last.op = "chat"
  /\ ~last.credential
  /\ Falsy(environ)
  /\ secrets = ""
  /\ agent = NoAgent
  /\ messages # << >>
  /\ messages[Len(messages)].role = "user"

\* ------------------------------------------------------------------ C10
\* C10 (as claimed): the agent that handles a request uses the instruction
\* of the mode selected at the time of the request, which is the mode
\* recorded in the request's result record.
C10_InstructionOfSelectedMode ==
  (last.op = "chat" /\ last.invoked = 1) =>
     /\ messages[Len(messages)].data.mode = mode
     /\ last.instruction = MODE_INSTRUCTIONS[messages[Len(messages)].data.mode]

\* ------------------------------------------------------------------ C11
\* the records run_agent may return in a request of the session
SessionRecords(m) == { run_agent(inv, m) : inv \in SessionInvokes }

\* old is kept, entry for entry, at the front of new
KeptAtFront(old, new) ==
  /\ Len(old) <= Len(new)
  /\ \A i \in 1..Len(old) : new[i] = old[i]

\* C11: the transcript only grows at its end: a typed request appends its
\* user message, and when run_agent returned, one assistant message carrying
\* its record directly after it; no entry is modified or reordered, and
\* entries are removed only by Clear Chat (which empties the transcript and
\* handles no request).
C11_TranscriptAppendOnly ==
  [][ LET n == Len(messages)
          k == Len(messages')
      IN /\ \/ messages' = << >> /\ last' = NoRequest
            \/ KeptAtFront(messages, messages') /\ k <= n + 2
         /\ k > n => messages'[n + 1].role = "user"
         /\ k = n + 2 =>
              /\ last'.op = "chat" /\ last'.invoked = 1
              /\ messages'[k].role = "assistant"
              /\ messages'[k].data \in SessionRecords(mode)
              /\ messages'[k].content = messages'[k].data.answer
         /\ last'.op = "chat" =>
              /\ KeptAtFront(messages, messages')
              /\ k = n + 1 + last'.invoked
              /\ messages'[n + 1].content \in Prompts
    ]_vars

\* two requests in a row, the first answered with an error record, the
\* second with a normal one
C11_Witness ==
  /\ last.op = "chat"
  /\ last.invoked = 1
  /\ Len(messages) = 4
  /\ messages[1].role = "user"
  /\ messages[2].role = "assistant"
  /\ "error" \in DOMAIN messages[2].data
  /\ messages[3].role = "user"
  /\ messages[4].role = "assistant"
  /\ "error" \notin DOMAIN messages[4].data

\* ------------------------------------------------------------------ C12
\* the trimmed stretch after the first FINAL ANSWER header, up to the next
\* VERIFICATION header (the end of the text when none follows)
AnswerStretch(t) ==
  LET p == SetMin(Pos(4, t))
      q == SetMin({ j \in (p + 1)..(Len(t) + 1) :
                      j = Len(t) + 1 \/ t[j] \in HeaderForms(5) })
  IN strip(SubSeq(t, p + 1, q - 1))

\* C12: the answer fallback looks at the extracted answer alone: the returned
\* answer is empty if and only if the trimmed text is empty, and a text whose
\* FINAL ANSWER header is followed by an empty section gets the whole trimmed
\* text as its answer, whatever the understanding field holds.
C12_FallbackOnEmptyAnswerAlone ==
  pc = "done" =>
    /\ result.answer = << >> <=> strip(text) = << >>
    /\ (Present(4, text) /\ AnswerStretch(text) = << >>) =>
          result.answer = strip(text)

\* a parsed text with a filled understanding section and a FINAL ANSWER
\* header followed by nothing but whitespace
C12_Witness ==
  /\ pc = "done"
  /\ Present(1, text)
  /\ result.understanding # << >>
  /\ Present(4, text)
  /\ AnswerStretch(text) = << >>
  /\ strip(text) # << >>
  /\ result.answer = strip(text)

\* ------------------------------------------------------------------ C13
\* the containers of a script run that hold an error panel written by an
\* except clause
ExceptPanels(scr) == { i \in 1..Len(scr) : scr[i].by = "except" }

\* C13: a request sent without a credential fails, and a request that fails
\* before run_agent is called (the credential is missing or build_agent
\* raises) is reported by one error panel, without a second attempt; the
\* transcript gains the request's user message and no assistant message, and
\* the cached agent stays as it was.
C13_FailureReportedOnce ==
  [][ /\ (last'.op = "chat" /\ ~last'.credential) => last'.invoked = 0
      /\ (last'.op = "chat" /\ last'.invoked = 0) =>
           LET n == Len(messages)
               live == screen'[Len(screen')]
           IN /\ Len(messages') = n + 1
              /\ KeptAtFront(messages, messages')
              /\ messages'[n + 1].role = "user"
              /\ agent' = agent
              /\ ExceptPanels(screen') = { Len(screen') }
              /\ live.role = "assistant"
              /\ live.panels = << "error-box" >>
              /\ live.data = last'.panel
              /\ last'.panel \in
                   {"ValueError"} \cup { build_agent(mode, environ', FALSE).raised }
    ]_vars

\* a second request that failed for want of a credential: the transcript
\* holds the two user messages and the one error panel is on screen
C13_Witness ==
  /\ last.op = "chat"
  /\ ~last.credential
  /\ last.invoked = 0
  /\ last.panel = "ValueError"
  /\ agent = NoAgent
  /\ Len(messages) = 2
  /\ messages[1].role = "user"
  /\ messages[2].role = "user"
  /\ Len(screen) = 3
  /\ screen[3].by = "except"

\* ------------------------------------------------------------------ C14
\* C14: build_agent is called only while no agent is cached, and a cached
\* agent is never rebuilt or cleared by any later event: a request, a mode
\* change, a toggle change, Clear Chat, or an error record of run_agent.
C14_AgentBuiltAtMostOnce ==
  [][ /\ (last'.op = "chat" /\ last'.build_called) => agent = NoAgent
      /\ agent # NoAgent => agent' = agent ]_vars

\* an agent built under one mode and still cached after the mode was changed,
\* the transcript was cleared and a further request came back from run_agent
\* as an error record
C14_Witness ==
  /\ agent # NoAgent
  /\ agent.mode_instruction # MODE_INSTRUCTIONS[mode]
  /\ last.op = "chat"
  /\ ~last.build_called
  /\ last.invoked = 1
  /\ Len(messages) = 2
  /\ "error" \in DOMAIN messages[2].data

\* ------------------------------------------------------------------ C15
\* C15: Clear Chat empties the transcript and changes nothing else: the
\* mode, the two toggles and the cached agent keep their values, and the run
\* that follows shows the empty-state welcome view.
C15_ClearChatFrame ==
  [][ (messages # << >> /\ messages' = << >>) =>
        /\ UNCHANGED << mode, show_trace, show_tools, agent, environ, secrets >>
        /\ screen' = << Welcome >> ]_vars

\* a cleared session whose mode and toggles are off their defaults and whose
\* agent is cached
C15_Witness ==
  /\ messages = << >>
  /\ last = NoRequest
  /\ agent # NoAgent
  /\ mode # "Exam Mode"
  /\ ~show_trace
  /\ ~show_tools
  /\ screen = << Welcome >>

\* ------------------------------------------------------------------ C16
\* the containers of a script run written by format_response_html: the live
\* render of a request and the redisplays of the history loop
Rendered(scr) == { i \in 1..Len(scr) : scr[i].by = "format_response_html" }

\* C16 (as claimed): a record that carries an error marker is rendered as one
\* error panel and nothing else, under every value of show_trace and
\* show_tools, on the live render and on every redisplay; a record without
\* an error marker always gets its final-answer panel.
C16_ErrorRecordOneErrorPanel ==
  \A i \in Rendered(screen) :
    LET data == screen[i].data
    IN /\ screen[i].panels = format_response_html(data, show_trace, show_tools)
       /\ \A trace_on, tools_on \in BOOLEAN :
            IF "error" \in DOMAIN data
              THEN format_response_html(data, trace_on, tools_on) = << "error-box" >>
              ELSE "answer" \in Range(format_response_html(data, trace_on, tools_on))

\* ------------------------------------------------------------------ C17
\* the tool names of the entries of a trace
TraceTools(tt) == { tt[i].tool : i \in 1..Len(tt) }

\* C17: in every record run_agent returns, the names in tools_used are the
\* tool names of the entries of tool_trace, so tools_used is empty exactly
\* when tool_trace is and is never the longer of the two.
C17_ToolsUsedMatchesTrace ==
  pc = "returned" =>
    LET tu == result.tools_used
        tt == result.tool_trace
    IN /\ Range(tu) = TraceTools(tt)
       /\ tu = << >> <=> tt = << >>
       /\ Len(tu) <= Len(tt)

\* a run that called two tools, one of them twice: three trace entries, two
\* names
C17_Witness ==
  /\ pc = "returned"
  /\ ~invoke.raised
  /\ Len(result.tool_trace) = 3
  /\ Len(result.tools_used) = 2
  /\ result.tool_trace[1].tool = result.tool_trace[3].tool
  /\ result.tool_trace[1].tool # result.tool_trace[2].tool

====
